---- MODULE Spec2Model ----
(***************************************************************************)
(* Model of mmocr/datasets/transforms/loading.py: the two annotation       *)
(* loaders LoadOCRAnnotations and LoadKIEAnnotations.                      *)
(*                                                                         *)
(* A Python dict is a function whose DOMAIN is its set of keys; a missing  *)
(* key is a key outside the DOMAIN.  Optional[int] is <<>> for None and    *)
(* <<k>> for the integer k.  A call that may raise yields a record         *)
(* [res |-> the dict as the call left it, exc |-> "none" or the exception].*)
(* Mutable Python objects whose identity matters (the image shape) live in *)
(* `heap`; a dict then stores the object's address.                        *)
(***************************************************************************)
EXTENDS Integers, Sequences, FiniteSets, TLC

VARIABLES loader, phase, args, results, heap, exc, transformed

vars == <<loader, phase, args, results, heap, exc, transformed>>

(* ------------------------------ bounds -------------------------------- *)

\* longest `instances` list of a sample record
MaxN == 3
\* most objects the heap holds (caps the rebinding of img_shape)
MaxHeap == 3

(* --------------------------- dict helpers ----------------------------- *)

EmptyDict == <<>>

Has(d, k) == k \in DOMAIN d

Put(d, k, v) == [x \in (DOMAIN d) \cup {k} |-> IF x = k THEN v ELSE d[x]]

Ok(d) == [res |-> d, exc |-> "none"]

Raise(d, e) == [res |-> d, exc |-> e]

\* the statements before have not raised, so the next one runs
Running(st) == st.exc = "none"

(* --------------------------- numpy helpers ---------------------------- *)

Abs(x) == IF x < 0 THEN -x ELSE x

RECURSIVE Ulp32(_, _)
\* spacing of float32 values around the magnitude m (24-bit significand)
Ulp32(m, u) == IF m \div u < 16777216 THEN u ELSE Ulp32(m, 2 * u)

\* np.float32 of an integer: round to nearest representable, ties to even
Float32(x) ==
    LET m == Abs(x)
        u == Ulp32(m, 1)
        q == m \div u
        r == m % u
        n == IF 2 * r > u \/ (2 * r = u /\ q % 2 = 1) THEN q + 1 ELSE q
    IN  IF x < 0 THEN -(n * u) ELSE n * u

\* np.array(seq, dtype=np.float32)
Float32Array(s) == [k \in 1..Len(s) |-> Float32(s[k])]

\* np.bool_ of a Python bool
NpBool(b) == (b = TRUE)

RECURSIVE BitAnd(_, _)
\* a & b on two's-complement integers
BitAnd(a, b) ==
    IF a = 0 \/ b = 0 THEN 0
    ELSE IF a = -1 THEN b
    ELSE IF b = -1 THEN a
    ELSE (a % 2) * (b % 2) + 2 * BitAnd(a \div 2, b \div 2)

\* the 1-D array laid along the first (row) axis
BroadcastRows(v, i, j) == v[i]

\* numpy broadcasting of a 1-D array v against an (N, N) array: trailing
\* axes are aligned, so v is laid along the last (column) axis
Broadcast(v, i, j) == v[j]

\* fill_diagonal left out
FillDiagonalSkipped(m, val) == m

\* np.fill_diagonal(m, val)
FillDiagonal(m, val) ==
    [i \in 1..Len(m) |-> [j \in 1..Len(m[i]) |-> IF i = j THEN val ELSE m[i][j]]]

RECURSIVE AppendEachPresent(_, _, _, _)
\* the loop skipping the instances without the key
AppendEachPresent(instances, key, i, lst) ==
    IF i > Len(instances) THEN [val |-> lst, exc |-> "none"]
    ELSE IF ~Has(instances[i], key) THEN AppendEachPresent(instances, key, i + 1, lst)
    ELSE AppendEachPresent(instances, key, i + 1, Append(lst, instances[i][key]))

RECURSIVE AppendEach(_, _, _, _)
\* lst = []; for instance in instances: lst.append(instance[key])
\* raises KeyError at the first instance without the key; lst is a local
AppendEach(instances, key, i, lst) ==
    IF i > Len(instances) THEN [val |-> lst, exc |-> "none"]
    ELSE IF ~Has(instances[i], key) THEN [val |-> lst, exc |-> "KeyError"]
    ELSE AppendEach(instances, key, i + 1, Append(lst, instances[i][key]))

(* ------------- mmcv.transforms.LoadAnnotations (the base) ------------- *)

\* results['gt_bboxes'] = np.array(bboxes, dtype=np.float32).reshape(-1, 4)
MMCV_load_bboxes(res) ==
    LET got == AppendEach(res["instances"], "bbox", 1, <<>>)
    IN  IF got.exc # "none" THEN Raise(res, got.exc)
        ELSE Ok(Put(res, "gt_bboxes",
                    [i \in 1..Len(got.val) |-> Float32Array(got.val[i])]))

\* results['gt_bboxes_labels'] = np.array(labels, dtype=np.int64)
MMCV_load_labels(res) ==
    LET got == AppendEach(res["instances"], "bbox_label", 1, <<>>)
    IN  IF got.exc # "none" THEN Raise(res, got.exc)
        ELSE Ok(Put(res, "gt_bboxes_labels", got.val))

(* ------------------------- LoadOCRAnnotations ------------------------- *)

\* `and` in place of `or`
OCR_with_ignore_both(with_bbox, with_polygon) == with_bbox /\ with_polygon

\* self.with_ignore = with_bbox or with_polygon
OCR_with_ignore(with_bbox, with_polygon) == with_bbox \/ with_polygon

OCR_init(with_bbox, with_label, with_polygon, with_text) ==
    Ok([cls          |-> "LoadOCRAnnotations",
        with_bbox    |-> with_bbox,
        with_label   |-> with_label,
        with_polygon |-> with_polygon,
        with_text    |-> with_text,
        with_ignore  |-> OCR_with_ignore(with_bbox, with_polygon)])

OCR_load_ignore_flags(res) ==
    LET got == AppendEach(res["instances"], "ignore", 1, <<>>)
    IN  IF got.exc # "none" THEN Raise(res, got.exc)
        ELSE Ok(Put(res, "gt_ignored",
                    [i \in 1..Len(got.val) |-> NpBool(got.val[i])]))

OCR_load_polygons(res) ==
    LET got == AppendEach(res["instances"], "polygon", 1, <<>>)
    IN  IF got.exc # "none" THEN Raise(res, got.exc)
        ELSE Ok(Put(res, "gt_polygons",
                    [i \in 1..Len(got.val) |-> Float32Array(got.val[i])]))

\* the texts read so far attached before the KeyError leaves the call
OCR_load_texts_partial(res) ==
    LET got == AppendEach(res["instances"], "text", 1, <<>>)
    IN  IF got.exc # "none" THEN Raise(Put(res, "gt_texts", got.val), got.exc)
        ELSE Ok(Put(res, "gt_texts", got.val))

OCR_load_texts(res) ==
    LET got == AppendEach(res["instances"], "text", 1, <<>>)
    IN  IF got.exc # "none" THEN Raise(res, got.exc)
        ELSE Ok(Put(res, "gt_texts", got.val))

(* ------------------------- LoadKIEAnnotations ------------------------- *)

\* `if key_node_idx or value_node_idx`: the index 0 taken for None
KIE_init_truthy(with_bbox, with_label, with_text, directed, key_node_idx, value_node_idx) ==
    LET self == [cls        |-> "LoadKIEAnnotations",
                 with_bbox  |-> with_bbox,
                 with_label |-> with_label,
                 with_text  |-> with_text,
                 directed   |-> directed]
        set(x) == x # <<>> /\ x # <<0>>
    IN  IF set(key_node_idx) \/ set(value_node_idx)
        THEN IF key_node_idx # <<>> /\ value_node_idx # <<>>
             THEN Ok(Put(Put(self, "key_node_idx", key_node_idx[1]),
                         "value_node_idx", value_node_idx[1]))
             ELSE Raise(self, "AssertionError")
        ELSE Ok(self)

\* equal indices rejected as well
KIE_init_distinct(with_bbox, with_label, with_text, directed, key_node_idx, value_node_idx) ==
    LET self == [cls        |-> "LoadKIEAnnotations",
                 with_bbox  |-> with_bbox,
                 with_label |-> with_label,
                 with_text  |-> with_text,
                 directed   |-> directed]
    IN  IF key_node_idx # <<>> \/ value_node_idx # <<>>
        THEN IF key_node_idx # <<>> /\ value_node_idx # <<>>
                /\ key_node_idx # value_node_idx
             THEN Ok(Put(Put(self, "key_node_idx", key_node_idx[1]),
                         "value_node_idx", value_node_idx[1]))
             ELSE Raise(self, "AssertionError")
        ELSE Ok(self)

\* key_node_idx / value_node_idx: <<>> is None, <<k>> is the integer k
KIE_init(with_bbox, with_label, with_text, directed, key_node_idx, value_node_idx) ==
    LET self == [cls        |-> "LoadKIEAnnotations",
                 with_bbox  |-> with_bbox,
                 with_label |-> with_label,
                 with_text  |-> with_text,
                 directed   |-> directed]
    IN  IF key_node_idx # <<>> \/ value_node_idx # <<>>
        THEN IF key_node_idx # <<>> /\ value_node_idx # <<>>
             THEN Ok(Put(Put(self, "key_node_idx", key_node_idx[1]),
                         "value_node_idx", value_node_idx[1]))
             ELSE Raise(self, "AssertionError")
        ELSE Ok(self)

KIE_load_texts(res) ==
    LET got == AppendEach(res["instances"], "text", 1, <<>>)
    IN  IF got.exc # "none" THEN Raise(res, got.exc)
        ELSE Ok(Put(res, "gt_texts", got.val))

RECURSIVE AppendLabels(_, _, _, _)
\* the loop of _load_labels: bbox_label, then edge_label, of each instance
AppendLabels(instances, i, bbox_labels, edge_labels) ==
    IF i > Len(instances)
    THEN [bbox_labels |-> bbox_labels, edge_labels |-> edge_labels, exc |-> "none"]
    ELSE IF ~Has(instances[i], "bbox_label") \/ ~Has(instances[i], "edge_label")
    THEN [bbox_labels |-> bbox_labels, edge_labels |-> edge_labels, exc |-> "KeyError"]
    ELSE AppendLabels(instances, i + 1,
                      Append(bbox_labels, instances[i]["bbox_label"]),
                      Append(edge_labels, instances[i]["edge_label"]))

\* <= in place of ==
ConnectivityOrdered(edge_labels) ==
    [i \in 1..Len(edge_labels) |-> [j \in 1..Len(edge_labels) |->
        IF edge_labels[i] <= edge_labels[j] THEN 1 ELSE 0]]

\* (edge_labels[:, None] == edge_labels[None, :]).astype(np.int32)
Connectivity(edge_labels) ==
    [i \in 1..Len(edge_labels) |-> [j \in 1..Len(edge_labels) |->
        IF edge_labels[i] = edge_labels[j] THEN 1 ELSE 0]]

\* (edge_labels & bbox_labels == 1).astype(np.int32)
Directed(edge_labels, bbox_labels) ==
    [i \in 1..Len(edge_labels) |-> [j \in 1..Len(edge_labels) |->
        IF BitAnd(edge_labels[i][j], Broadcast(bbox_labels, i, j)) = 1 THEN 1 ELSE 0]]

\* key_nodes_mask[:, None] * value_nodes_mask[None, :]
Key2ValueMask(bbox_labels, key_node_idx, value_node_idx) ==
    LET key_nodes_mask   == [i \in 1..Len(bbox_labels) |-> bbox_labels[i] = key_node_idx]
        value_nodes_mask == [i \in 1..Len(bbox_labels) |-> bbox_labels[i] = value_node_idx]
    IN  [i \in 1..Len(bbox_labels) |-> [j \in 1..Len(bbox_labels) |->
            key_nodes_mask[i] /\ value_nodes_mask[j]]]

\* the mask applied without the negation
MaskOutAllowed(edge_labels, key2value_mask) ==
    [i \in 1..Len(edge_labels) |-> [j \in 1..Len(edge_labels) |->
        IF key2value_mask[i][j] THEN -1 ELSE edge_labels[i][j]]]

\* edge_labels[~key2value_mask] = -1
MaskOut(edge_labels, key2value_mask) ==
    [i \in 1..Len(edge_labels) |-> [j \in 1..Len(edge_labels) |->
        IF ~key2value_mask[i][j] THEN -1 ELSE edge_labels[i][j]]]

EdgeMatrix(self, bbox_labels, edge_labels) ==
    LET e0 == Connectivity(edge_labels)
        e1 == IF self["directed"] THEN Directed(e0, bbox_labels) ELSE e0
        e2 == IF Has(self, "key_node_idx")
              THEN MaskOut(e1, Key2ValueMask(bbox_labels, self["key_node_idx"],
                                             self["value_node_idx"]))
              ELSE e1
    IN  FillDiagonal(e2, -1)

KIE_load_labels(self, res) ==
    LET got == AppendLabels(res["instances"], 1, <<>>, <<>>)
    IN  IF got.exc # "none" THEN Raise(res, got.exc)
        ELSE Ok(Put(Put(res, "gt_edges_labels",
                        EdgeMatrix(self, got.bbox_labels, got.edge_labels)),
                    "gt_bboxes_labels", got.bbox_labels))

(* ------------------------------ transform ----------------------------- *)

\* mmcv LoadAnnotations.transform, reached by super().transform(results):
\* boxes if with_bbox, then labels if with_label through self._load_labels
MMCV_transform(self, res) ==
    LET s1 == IF self["with_bbox"] THEN MMCV_load_bboxes(res) ELSE Ok(res)
    IN  IF ~self["with_label"] THEN s1
        ELSE IF ~Running(s1) THEN s1
        ELSE IF self["cls"] = "LoadKIEAnnotations" THEN KIE_load_labels(self, s1.res)
        ELSE MMCV_load_labels(s1.res)

OCR_transform(self, res) ==
    LET s0 == MMCV_transform(self, res)
        s1 == IF Running(s0) /\ self["with_polygon"] THEN OCR_load_polygons(s0.res) ELSE s0
        s2 == IF Running(s1) /\ self["with_text"] THEN OCR_load_texts(s1.res) ELSE s1
    IN  IF Running(s2) /\ self["with_ignore"] THEN OCR_load_ignore_flags(s2.res) ELSE s2

\* the object itself in place of a copy
DeepCopyAlias(hp, addr) == [heap |-> hp, addr |-> addr]

\* copy.deepcopy(obj): a tuple of ints is returned as it is (it is
\* immutable), a list is copied into a new object
DeepCopy(hp, addr) ==
    IF hp[addr].kind = "tuple" THEN [heap |-> hp, addr |-> addr]
    ELSE [heap |-> Append(hp, hp[addr]), addr |-> Len(hp) + 1]

\* if 'ori_shape' not in results:
\*     results['ori_shape'] = copy.deepcopy(results['img_shape'])
KIE_ori_shape(res, hp) ==
    IF Has(res, "ori_shape") THEN [res |-> res, exc |-> "none", heap |-> hp]
    ELSE IF ~Has(res, "img_shape") THEN [res |-> res, exc |-> "KeyError", heap |-> hp]
    ELSE LET c == DeepCopy(hp, res["img_shape"])
         IN  [res |-> Put(res, "ori_shape", c.addr), exc |-> "none", heap |-> c.heap]

KIE_transform(self, res, hp) ==
    LET s0 == KIE_ori_shape(res, hp)
        s1 == IF Running(s0) THEN MMCV_transform(self, s0.res)
              ELSE [res |-> s0.res, exc |-> s0.exc]
        s2 == IF Running(s1) /\ self["with_text"] THEN KIE_load_texts(s1.res) ELSE s1
    IN  [res |-> s2.res, exc |-> s2.exc, heap |-> s0.heap]

(* --------------------------- sample records --------------------------- *)

SeqsUpTo(S, n) == UNION {[1..k -> S] : k \in 0..n}

Without(d, k) == [x \in (DOMAIN d) \ {k} |-> d[x]]

\* detection / spotting instances; 16777217 is not a float32 value
OCR_a ==
    [bbox |-> <<0, 0, 2, 2>>, bbox_label |-> 0, polygon |-> <<0, 0, 2, 0, 2, 2, 0, 2>>,
     ignore |-> FALSE, text |-> "a"]

OCR_b ==
    [bbox |-> <<1, 1, 3, 3>>, bbox_label |-> 1, polygon |-> <<1, 1, 16777217, 1, 2, 3>>,
     ignore |-> TRUE, text |-> "b"]

OCRInstances ==
    {OCR_a, OCR_b, Without(OCR_a, "polygon"), Without(OCR_b, "text"),
     Without(OCR_a, "ignore"), [text |-> "c"]}

KIE_bbox == <<0, 0, 1, 1>>

KIE_inst(bbox_label, edge_label, text) ==
    [bbox |-> KIE_bbox, bbox_label |-> bbox_label, edge_label |-> edge_label, text |-> text]

\* node labels 0, 1 and 3 (3 & 1 = 1), group ids 1 and 2; the last instance
\* has neither a text nor a group id
KIEInstances ==
    {KIE_inst(0, 1, "a"), KIE_inst(0, 2, "b"), KIE_inst(1, 1, "b"), KIE_inst(3, 2, "c"),
     [bbox |-> KIE_bbox, bbox_label |-> 1]}

\* the samples of the shape snapshot: no instance, one instance, one
\* instance whose text is missing
ShapeInstances == {<<>>, <<KIE_inst(0, 1, "a")>>, <<[bbox |-> KIE_bbox, bbox_label |-> 1]>>}

Shapes == {<<2, 3>>, <<4, 6>>}

OptIdx == {<<>>, <<0>>, <<1>>}

Obj(kind, val) == [kind |-> kind, val |-> val]

(* ------------------------------- state -------------------------------- *)

\* loader: the attributes of the constructed transform (self)
\* phase: "new", "ready" (constructed) or "failed" (the constructor raised)
\* args: the keyword arguments of the constructor call
\* results: the sample record handed to transform; <<>> before a sample
\* heap: the shape objects img_shape / ori_shape refer to
\* exc: the exception of the last call, "none" if it returned
\* transformed: transform has been called on the sample
Init ==
    /\ loader = EmptyDict
    /\ phase = "new"
    /\ args = EmptyDict
    /\ results = EmptyDict
    /\ heap = <<>>
    /\ exc = "none"
    /\ transformed = FALSE

Construct(r, kwargs) ==
    /\ phase = "new"
    /\ args' = kwargs
    /\ exc' = r.exc
    /\ phase' = IF r.exc = "none" THEN "ready" ELSE "failed"
    /\ loader' = IF r.exc = "none" THEN r.res ELSE EmptyDict
    /\ UNCHANGED <<results, heap, transformed>>

ConstructOCR ==
    \E wb, wl, wp, wt \in BOOLEAN :
        Construct(OCR_init(wb, wl, wp, wt),
                  [with_bbox |-> wb, with_label |-> wl, with_polygon |-> wp,
                   with_text |-> wt])

ConstructKIE ==
    \E wb, wl, wt, d \in BOOLEAN, k, v \in OptIdx :
        Construct(KIE_init(wb, wl, wt, d, k, v),
                  [with_bbox |-> wb, with_label |-> wl, with_text |-> wt,
                   directed |-> d, key_node_idx |-> k, value_node_idx |-> v])

\* the pipeline hands the constructed loader a sample
Feed(sample, hp) ==
    /\ phase = "ready"
    /\ results = EmptyDict
    /\ results' = sample
    /\ heap' = hp
    /\ UNCHANGED <<loader, phase, args, exc, transformed>>

FeedOCR ==
    /\ phase = "ready"
    /\ loader["cls"] = "LoadOCRAnnotations"
    /\ \E s \in SeqsUpTo(OCRInstances, MaxN) : Feed([instances |-> s], <<>>)

FeedKIE ==
    /\ phase = "ready"
    /\ loader["cls"] = "LoadKIEAnnotations"
    /\ \E s \in SeqsUpTo(KIEInstances, MaxN) :
        Feed([instances |-> s, img_shape |-> 1], <<Obj("tuple", <<2, 3>>)>>)

\* samples for the shape snapshot: img_shape a tuple or a list, or missing;
\* ori_shape missing, or set upstream to a tuple of its own
FeedShape ==
    \E s \in ShapeInstances, kind \in {"tuple", "list"}, v, w \in Shapes,
       hasImg, hasOri \in BOOLEAN :
        LET r0 == [instances |-> s]
            h1 == IF hasImg THEN <<Obj(kind, v)>> ELSE <<>>
            r1 == IF hasImg THEN Put(r0, "img_shape", 1) ELSE r0
            h2 == IF hasOri THEN Append(h1, Obj("tuple", w)) ELSE h1
            r2 == IF hasOri THEN Put(r1, "ori_shape", Len(h2)) ELSE r1
        IN  Feed(r2, h2)

TransformOCR ==
    /\ phase = "ready"
    /\ results # EmptyDict
    /\ loader["cls"] = "LoadOCRAnnotations"
    /\ LET r == OCR_transform(loader, results)
       IN  /\ results' = r.res
           /\ exc' = r.exc
    /\ transformed' = TRUE
    /\ UNCHANGED <<loader, phase, args, heap>>

TransformKIE ==
    /\ phase = "ready"
    /\ results # EmptyDict
    /\ loader["cls"] = "LoadKIEAnnotations"
    /\ LET r == KIE_transform(loader, results, heap)
       IN  /\ results' = r.res
           /\ exc' = r.exc
           /\ heap' = r.heap
    /\ transformed' = TRUE
    /\ UNCHANGED <<loader, phase, args>>

\* a later pipeline stage resizes: results['img_shape'][:] = v
ResizeInPlace ==
    /\ results # EmptyDict
    /\ Has(results, "img_shape")
    /\ heap[results["img_shape"]].kind = "list"
    /\ \E v \in Shapes :
        /\ v # heap[results["img_shape"]].val
        /\ heap' = [heap EXCEPT ![results["img_shape"]].val = v]
    /\ UNCHANGED <<loader, phase, args, results, exc, transformed>>

\* a later pipeline stage resizes: results['img_shape'] = v
ResizeRebind ==
    /\ results # EmptyDict
    /\ Len(heap) < MaxHeap
    /\ \E v \in Shapes :
        /\ heap' = Append(heap, Obj("tuple", v))
        /\ results' = Put(results, "img_shape", Len(heap) + 1)
    /\ UNCHANGED <<loader, phase, args, exc, transformed>>

Next == ConstructOCR \/ ConstructKIE \/ FeedOCR \/ FeedKIE \/ TransformOCR \/ TransformKIE

NextShape == ConstructKIE \/ FeedShape \/ TransformKIE \/ ResizeInPlace \/ ResizeRebind

\* both loaders, each on the samples of its task
Spec == Init /\ [][Next]_vars

\* LoadKIEAnnotations in a pipeline whose other stages resize the image
SpecShape == Init /\ [][NextShape]_vars

(* ------------------------------- claims ------------------------------- *)

Instances == results["instances"]

N == Len(Instances)

IsOCR == phase = "ready" /\ loader["cls"] = "LoadOCRAnnotations"

IsKIE == phase = "ready" /\ loader["cls"] = "LoadKIEAnnotations"

\* transform was called on the sample and returned
Returned == transformed /\ exc = "none"

\* a KIE transform that loaded the labels has returned
LabelsLoaded == IsKIE /\ Returned /\ args["with_label"]

KeyValueConfigured == args["key_node_idx"] # <<>> /\ args["value_node_idx"] # <<>>

NoKeyValue == args["key_node_idx"] = <<>> /\ args["value_node_idx"] = <<>>

Edges == results["gt_edges_labels"]

NodeLabel(i) == Instances[i]["bbox_label"]

GroupId(i) == Instances[i]["edge_label"]

\* 1 if instances i and j share their group id, else 0
Connected(i, j) == IF GroupId(i) = GroupId(j) THEN 1 ELSE 0

\* C1: after a successful label load, under every configuration,
\* gt_edges_labels is an N x N matrix with entries in {-1, 0, 1} and -1 on
\* the whole diagonal.
C1_SquareTernaryDiagonal ==
    LabelsLoaded =>
        /\ Has(results, "gt_edges_labels")
        /\ Len(Edges) = N
        /\ \A i \in 1..N :
            /\ Len(Edges[i]) = N
            /\ \A j \in 1..N : Edges[i][j] \in {-1, 0, 1}
            /\ Edges[i][i] = -1

\* a directed, key/value-masked matrix of MaxN instances with a 1 and a
\* masked entry off the diagonal
C1_Witness ==
    /\ LabelsLoaded
    /\ args["directed"]
    /\ KeyValueConfigured
    /\ N = MaxN
    /\ \E i, j \in 1..N : i # j /\ Edges[i][j] = 1
    /\ \E i, j \in 1..N : i # j /\ Edges[i][j] = -1

\* C2: undirected, no key/value pair: off the diagonal the entry is 1 iff
\* the two group ids are equal and 0 otherwise, so the matrix is symmetric;
\* edge_label [1,1,2] with bbox_label [0,0,0] gives
\* [[-1,1,0],[1,-1,0],[0,0,-1]].
C2_UndirectedConnectivity ==
    (LabelsLoaded /\ ~args["directed"] /\ NoKeyValue) =>
        /\ \A i, j \in 1..N : i # j =>
            /\ Edges[i][j] = Connected(i, j)
            /\ Edges[i][j] = Edges[j][i]
        /\ (/\ N = 3
            /\ [i \in 1..N |-> GroupId(i)] = <<1, 1, 2>>
            /\ [i \in 1..N |-> NodeLabel(i)] = <<0, 0, 0>>)
           => Edges = << <<-1, 1, 0>>, <<1, -1, 0>>, <<0, 0, -1>> >>

\* the example of the claim has been loaded
C2_Witness ==
    /\ LabelsLoaded /\ ~args["directed"] /\ NoKeyValue
    /\ N = 3
    /\ [i \in 1..N |-> GroupId(i)] = <<1, 1, 2>>
    /\ [i \in 1..N |-> NodeLabel(i)] = <<0, 0, 0>>
    /\ Edges = << <<-1, 1, 0>>, <<1, -1, 0>>, <<0, 0, -1>> >>

\* the 0/1 value of entry (i, j) before the key/value mask and the diagonal
BeforeMask(i, j) ==
    IF args["directed"]
    THEN IF BitAnd(Connected(i, j), NodeLabel(j)) = 1 THEN 1 ELSE 0
    ELSE Connected(i, j)

\* C3: with a key/value pair configured, directed or not, every entry
\* whose row is not a key node or whose column is not a value node is -1,
\* and an off-diagonal entry from a key row to a value column keeps the 0/1
\* value of the connectivity and directed steps.
C3_KeyValueMask ==
    (LabelsLoaded /\ KeyValueConfigured) =>
        \A i, j \in 1..N :
            LET allowed == /\ NodeLabel(i) = args["key_node_idx"][1]
                           /\ NodeLabel(j) = args["value_node_idx"][1]
            IN  /\ ~allowed => Edges[i][j] = -1
                /\ (allowed /\ i # j) => Edges[i][j] = BeforeMask(i, j)

\* key 0, value 1, directed: a value column keeps a 1 from one key row and
\* a 0 from another, while the reverse entry is masked
C3_Witness ==
    /\ LabelsLoaded /\ args["directed"]
    /\ args["key_node_idx"] = <<0>> /\ args["value_node_idx"] = <<1>>
    /\ \E i, j, k \in 1..N :
        /\ NodeLabel(i) = 0 /\ NodeLabel(j) = 1 /\ NodeLabel(k) = 0
        /\ Edges[i][j] = 1 /\ Edges[k][j] = 0 /\ Edges[j][i] = -1

\* C4 as stated: directed, no key/value pair: off the diagonal the entry is
\* 1 exactly when connectivity AND the ROW node label is 1.
C4_RowLabel ==
    (LabelsLoaded /\ args["directed"] /\ NoKeyValue) =>
        \A i, j \in 1..N : i # j =>
            Edges[i][j] = (IF BitAnd(Connected(i, j), NodeLabel(i)) = 1 THEN 1 ELSE 0)

\* C4 amended: directed, no key/value pair: off the diagonal the entry is 1
\* exactly when connectivity AND the COLUMN node label bbox_label[j] is 1,
\* and 0 otherwise.
C4_ColumnLabel ==
    (LabelsLoaded /\ args["directed"] /\ NoKeyValue) =>
        \A i, j \in 1..N : i # j =>
            Edges[i][j] = (IF BitAnd(Connected(i, j), NodeLabel(j)) = 1 THEN 1 ELSE 0)

\* two connected instances with node labels 0 and 1: the edge into the
\* label-1 column is 1, the edge into the label-0 column is 0
C4_Witness ==
    /\ LabelsLoaded /\ args["directed"] /\ NoKeyValue
    /\ \E i, j \in 1..N :
        /\ NodeLabel(i) = 0 /\ NodeLabel(j) = 1 /\ GroupId(i) = GroupId(j)
        /\ Edges[i][j] = 1 /\ Edges[j][i] = 0

\* the constructor of the KIE loader has been called
KIEConstructorCalled == phase # "new" /\ Has(args, "key_node_idx")

\* C5: a KIE loader given exactly one of key_node_idx / value_node_idx
\* fails at construction, before any sample can be transformed; given both
\* (0 included) or neither it is constructed.
C5_PairedIndices ==
    KIEConstructorCalled =>
        LET k == args["key_node_idx"]
            v == args["value_node_idx"]
        IN  IF (k = <<>>) # (v = <<>>)
            THEN /\ phase = "failed"
                 /\ exc = "AssertionError"
                 /\ loader = EmptyDict
                 /\ results = EmptyDict /\ ~transformed
                 /\ ~ENABLED FeedKIE /\ ~ENABLED TransformKIE
            ELSE /\ phase = "ready"
                 /\ Has(loader, "key_node_idx") <=> k # <<>>
                 /\ Has(loader, "value_node_idx") <=> v # <<>>
                 /\ k # <<>> => /\ loader["key_node_idx"] = k[1]
                                /\ loader["value_node_idx"] = v[1]

\* key_node_idx = 0 supplied without value_node_idx: construction failed
C5_Witness ==
    /\ KIEConstructorCalled
    /\ args["key_node_idx"] = <<0>> /\ args["value_node_idx"] = <<>>
    /\ phase = "failed"

\* C6: after a successful transform of a record without derived fields, a
\* derived field is present iff its switch is on: detection loader
\* gt_polygons iff with_polygon, gt_texts iff with_text, gt_ignored iff
\* (with_bbox or with_polygon); KIE loader gt_texts iff with_text,
\* gt_edges_labels iff with_label.
C6_FieldIffSwitch ==
    Returned =>
        /\ IsOCR =>
            /\ Has(results, "gt_polygons") <=> args["with_polygon"]
            /\ Has(results, "gt_texts") <=> args["with_text"]
            /\ Has(results, "gt_ignored") <=> (args["with_bbox"] \/ args["with_polygon"])
        /\ IsKIE =>
            /\ Has(results, "gt_texts") <=> args["with_text"]
            /\ Has(results, "gt_edges_labels") <=> args["with_label"]

\* with_text and with_label alone: texts of MaxN instances, no gt_ignored
C6_Witness ==
    /\ IsOCR /\ Returned /\ N = MaxN
    /\ args["with_text"] /\ args["with_label"]
    /\ ~args["with_bbox"] /\ ~args["with_polygon"]
    /\ Has(results, "gt_texts") /\ ~Has(results, "gt_ignored")

\* the field is absent, or has one element per instance, the i-th being
\* instances[i][key] (as a float32 array if float32 is set)
AlignedWith(field, key, float32) ==
    Has(results, field) =>
        /\ Len(results[field]) = N
        /\ \A i \in 1..N :
            /\ Has(Instances[i], key)
            /\ results[field][i] = IF float32 THEN Float32Array(Instances[i][key])
                                   ELSE Instances[i][key]

\* C7: after a successful transform every derived per-instance field that
\* is present has length N and its i-th element comes from instances[i]:
\* gt_texts[i] the text, gt_ignored[i] the ignore flag, gt_bboxes_labels[i]
\* the bbox_label, gt_polygons[i] the polygon as a float32 array; each
\* dimension of gt_edges_labels is N.
C7_Aligned ==
    Returned =>
        /\ AlignedWith("gt_polygons", "polygon", TRUE)
        /\ AlignedWith("gt_texts", "text", FALSE)
        /\ AlignedWith("gt_ignored", "ignore", FALSE)
        /\ AlignedWith("gt_bboxes_labels", "bbox_label", FALSE)
        /\ Has(results, "gt_edges_labels") =>
            /\ Len(Edges) = N
            /\ \A i \in 1..N : Len(Edges[i]) = N

\* all four detection fields of MaxN instances, with two different texts
\* and a polygon the float32 coercion changed
C7_Witness ==
    /\ IsOCR /\ Returned /\ N = MaxN
    /\ Has(results, "gt_polygons") /\ Has(results, "gt_texts")
    /\ Has(results, "gt_ignored") /\ Has(results, "gt_bboxes_labels")
    /\ results["gt_texts"][1] # results["gt_texts"][2]
    /\ results["gt_ignored"][1] # results["gt_ignored"][2]
    /\ results["gt_polygons"][2] # Instances[2]["polygon"]

\* both indices supplied and equal
EqualIndices ==
    /\ KIEConstructorCalled
    /\ args["key_node_idx"] # <<>>
    /\ args["key_node_idx"] = args["value_node_idx"]

\* C10 as stated: a KIE configuration with key_node_idx = value_node_idx is
\* rejected.
C10_EqualRejected == EqualIndices => phase = "failed"

\* C10 amended: a KIE configuration with key_node_idx = value_node_idx is
\* accepted at construction and used to build the mask: an off-diagonal
\* entry whose row and column node labels both equal the index keeps its
\* 0/1 value, every other entry is -1.
C10_EqualAccepted ==
    EqualIndices =>
        /\ phase = "ready"
        /\ loader["key_node_idx"] = args["key_node_idx"][1]
        /\ loader["value_node_idx"] = args["key_node_idx"][1]
        /\ LabelsLoaded =>
            \A i, j \in 1..N :
                Edges[i][j] =
                    IF /\ i # j
                       /\ NodeLabel(i) = args["key_node_idx"][1]
                       /\ NodeLabel(j) = args["key_node_idx"][1]
                    THEN BeforeMask(i, j) ELSE -1

\* key = value = 0: two label-0 nodes of one group are connected, a node of
\* another label is masked
C10_Witness ==
    /\ EqualIndices /\ args["key_node_idx"] = <<0>>
    /\ LabelsLoaded /\ ~args["directed"]
    /\ \E i, j, k \in 1..N :
        /\ i # j /\ Edges[i][j] = 1
        /\ k # i /\ NodeLabel(k) = 1 /\ Edges[i][k] = -1

\* the steps of the detection loader in the order of the claim: its
\* switch, the instance key it reads, the field it writes
OCRSteps ==
    << [on |-> args["with_bbox"], key |-> "bbox", field |-> "gt_bboxes"],
       [on |-> args["with_label"], key |-> "bbox_label", field |-> "gt_bboxes_labels"],
       [on |-> args["with_polygon"], key |-> "polygon", field |-> "gt_polygons"],
       [on |-> args["with_text"], key |-> "text", field |-> "gt_texts"],
       [on |-> args["with_bbox"] \/ args["with_polygon"], key |-> "ignore",
        field |-> "gt_ignored"] >>

\* step k is on and some instance lacks the key it reads
Lacking(k) == OCRSteps[k].on /\ \E i \in 1..N : ~Has(Instances[i], OCRSteps[k].key)

\* the first step that lacks its key; one past the last step if none does
FailAt ==
    IF \E k \in 1..Len(OCRSteps) : Lacking(k)
    THEN CHOOSE k \in 1..Len(OCRSteps) : Lacking(k) /\ \A m \in 1..(k - 1) : ~Lacking(m)
    ELSE Len(OCRSteps) + 1

\* what step k writes when every instance has its key
Written(k) ==
    [i \in 1..N |->
        IF OCRSteps[k].key \in {"bbox", "polygon"}
        THEN Float32Array(Instances[i][OCRSteps[k].key])
        ELSE Instances[i][OCRSteps[k].key]]

\* one call of the detection transform, from the record before to the
\* record after
OCRCallKeepsPartialResults ==
    /\ exc' = (IF FailAt <= Len(OCRSteps) THEN "KeyError" ELSE "none")
    /\ results'["instances"] = Instances
    /\ \A k \in 1..Len(OCRSteps) :
        LET f == OCRSteps[k].field
        IN  IF OCRSteps[k].on /\ k < FailAt
            THEN Has(results', f) /\ results'[f] = Written(k)
            ELSE /\ Has(results', f) <=> Has(results, f)
                 /\ Has(results, f) => results'[f] = results[f]

\* C8: the detection loader runs base boxes/labels, polygons, texts,
\* ignore flags in this order; when a step finds an instance without its
\* key the call raises (no default is substituted), the fields of the
\* earlier steps are attached, and the failing step and the later steps
\* add or change no field.
C8_PartialResultsKept == [][TransformOCR => OCRCallKeepsPartialResults]_vars

\* every switch on and a text missing after the first instance: boxes,
\* labels and polygons are attached, texts and ignore flags are not
C8_Witness ==
    /\ IsOCR /\ transformed /\ exc = "KeyError" /\ N = MaxN
    /\ args["with_bbox"] /\ args["with_label"] /\ args["with_polygon"] /\ args["with_text"]
    /\ Has(Instances[1], "text")
    /\ Has(results, "gt_bboxes") /\ Has(results, "gt_bboxes_labels")
    /\ Has(results, "gt_polygons")
    /\ ~Has(results, "gt_texts") /\ ~Has(results, "gt_ignored")

\* the (height, width) the record's key refers to
ShapeOf(res, hp, key) == hp[res[key]].val

\* C9: a KIE transform of a record without ori_shape sets ori_shape to the
\* value img_shape has at entry, even if a later step of the call fails;
\* an ori_shape the record has keeps its value over every transform and
\* every later change of img_shape, in place or by rebinding.
C9_OriShapeSnapshot ==
    [][/\ (TransformKIE /\ ~Has(results, "ori_shape") /\ Has(results, "img_shape")) =>
            /\ Has(results', "ori_shape")
            /\ ShapeOf(results', heap', "ori_shape") = ShapeOf(results, heap, "img_shape")
       /\ Has(results, "ori_shape") =>
            /\ Has(results', "ori_shape")
            /\ ShapeOf(results', heap', "ori_shape") = ShapeOf(results, heap, "ori_shape")
      ]_vars

\* ori_shape is the copy of a list img_shape that was resized in place
\* after the transform
C9_Witness ==
    /\ transformed
    /\ Has(results, "ori_shape") /\ Has(results, "img_shape")
    /\ heap[results["ori_shape"]].kind = "list"
    /\ heap[results["img_shape"]].kind = "list"
    /\ results["ori_shape"] # results["img_shape"]
    /\ ShapeOf(results, heap, "ori_shape") # ShapeOf(results, heap, "img_shape")

====
